---- MODULE Spec2Model ----
(***************************************************************************)
(* Model of src/app.py: the badminton week sheet.  Three tables (players,  *)
(* weeks, week_player_games), a cookie session, and the Flask handlers     *)
(* login, logout, index, week_view, players, create_week and toggle.       *)
(*                                                                         *)
(* Text is modelled as a sequence of one-character strings, so that        *)
(* str.strip, str.lower and str.splitlines are computed, not assumed.      *)
(***************************************************************************)
EXTENDS Integers, Sequences, FiniteSets, TLC

VARIABLES
    backend,                  \* which engine build_engine() returned
    ADMIN_PASSWORD,           \* os.environ.get("ADMIN_PASSWORD", "")
    players_table,            \* rows [id, name, sort_order]
    players_seq,              \* postgresql: last value of players.id's sequence
    weeks_table,              \* rows [id, week_date, created_at]
    week_player_games_table,  \* rows [week_id, player_id, game_no, played]
    session,                  \* the keys set in the session cookie
    last,                     \* the most recent request, with its response
    reqs                      \* the toggle requests in flight (ToggleSpec)

db == <<players_table, players_seq, weeks_table, week_player_games_table>>
config == <<backend, ADMIN_PASSWORD>>
vars == <<backend, ADMIN_PASSWORD, players_table, players_seq, weeks_table,
          week_player_games_table, session, last, reqs>>

----------------------------------------------------------------------------
(* Bounds of the model. *)

MaxDate == 2        \* week dates are the day numbers 1..MaxDate
MaxLines == 2       \* lines of a submitted roster
MaxPlayerSeq == 3   \* postgresql: cap on the players.id sequence

(* Program constants. *)

GAMES_PER_WEEK == 16
DEFAULT_PLAYERS == << >>
ADMIN_USERNAME == <<"a", "d", "m", "i", "n">>

----------------------------------------------------------------------------
(* Text *)

Whitespace == {" ", "\t", "\n", "\r"}
LineBreaks == {"\n", "\r"}

LowerOf == [A |-> "a", B |-> "b", C |-> "c", D |-> "d", E |-> "e", F |-> "f",
            G |-> "g", H |-> "h", I |-> "i", J |-> "j", K |-> "k", L |-> "l",
            M |-> "m", N |-> "n", O |-> "o", P |-> "p", Q |-> "q", R |-> "r",
            S |-> "s", T |-> "t", U |-> "u", V |-> "v", W |-> "w", X |-> "x",
            Y |-> "y", Z |-> "z"]

\* str.lower()
lower(s) == [i \in 1..Len(s) |-> IF s[i] \in DOMAIN LowerOf THEN LowerOf[s[i]] ELSE s[i]]

RECURSIVE lstrip(_)
lstrip(s) == IF s # << >> /\ Head(s) \in Whitespace THEN lstrip(Tail(s)) ELSE s

RECURSIVE rstrip(_)
rstrip(s) ==
    IF s # << >> /\ s[Len(s)] \in Whitespace
    THEN rstrip(SubSeq(s, 1, Len(s) - 1))
    ELSE s

\* str.strip()
strip(s) == rstrip(lstrip(s))

\* str.splitlines(): a line ends at "\n", "\r" or "\r\n"; a trailing line
\* break opens no further line.
RECURSIVE SplitFrom(_, _, _)
SplitFrom(s, i, cur) ==
    IF i > Len(s)
    THEN IF cur = << >> THEN << >> ELSE <<cur>>
    ELSE IF s[i] \in LineBreaks
         THEN LET skip == IF s[i] = "\r" /\ i < Len(s) /\ s[i + 1] = "\n" THEN 2 ELSE 1
              IN  <<cur>> \o SplitFrom(s, i + skip, << >>)
         ELSE SplitFrom(s, i + 1, Append(cur, s[i]))

splitlines(s) == SplitFrom(s, 1, << >>)

\* sep.join(lines)
RECURSIVE join(_, _)
join(sep, lines) ==
    IF lines = << >> THEN << >>
    ELSE IF Len(lines) = 1 THEN lines[1]
    ELSE lines[1] \o sep \o join(sep, Tail(lines))

----------------------------------------------------------------------------
(* Rows and queries *)

Max(S) == CHOOSE x \in S : \A y \in S : y <= x

\* rows listed by ascending key (order_by(<column>.asc())); key maps each
\* row to the value of the column
RECURSIVE OrderBy(_, _)
OrderBy(rows, key) ==
    IF rows = {} THEN << >>
    ELSE LET r == CHOOSE x \in rows : \A y \in rows : key[x] <= key[y]
         IN  <<r>> \o OrderBy(rows \ {r}, key)

Reverse(s) == [i \in 1..Len(s) |-> s[Len(s) + 1 - i]]

\* the ids an insert of n rows is given: the integer primary key of sqlite
\* continues after the largest id in the table, the serial column of
\* postgresql after the sequence
InsertedIds(rows, seq, n) ==
    LET base == IF backend = "sqlite"
                THEN (IF rows = {} THEN 0 ELSE Max({r.id : r \in rows}))
                ELSE seq
    IN  [i \in 1..n |-> base + i]

----------------------------------------------------------------------------
(* Inputs of the requests *)

Dates == 1..MaxDate
Times == {0, 1}                 \* values of datetime.utcnow()

Bob == <<"B", "o", "b">>
bob_ == <<"b", "o", "b", " ">>
Alice == <<"A", "l", "i", "c", "e">>
Lines == {Bob, bob_, Alice, <<" ">>, << >>}

RECURSIVE SeqsUpTo(_, _)
SeqsUpTo(S, n) ==
    IF n = 0 THEN {<< >>}
    ELSE LET shorter == SeqsUpTo(S, n - 1)
         IN  shorter \cup {Append(q, x) : q \in shorter, x \in S}

\* the rosters submitted: every sequence of at most MaxLines of the Lines, and
\* a few of them, blank submissions among them
LineSeqs == SeqsUpTo(Lines, MaxLines)
LineSamples == {<< >>, <<<<" ">>, << >>>>, <<Bob>>, <<Alice, bob_>>, <<Bob, bob_, Alice>>}

Padded == <<" ">> \o ADMIN_USERNAME \o <<"\t">>
Usernames == {ADMIN_USERNAME, Padded, <<"A">> \o Tail(ADMIN_USERNAME)}
Passwords == {"", "secret", "Secret"}

WeekIds == 1..MaxDate
PlayerIds == 1..MaxPlayerSeq
GameInputs == {0, GAMES_PER_WEEK, GAMES_PER_WEEK + 1}

----------------------------------------------------------------------------
(* Responses *)

Redirect(op, args, to) == [op |-> op, args |-> args, status |-> 302, body |-> to]
Render(op, args, template, body) ==
    [op |-> op, args |-> args, status |-> 200, body |-> [template |-> template] @@ body]
Json(op, args, status, body) == [op |-> op, args |-> args, status |-> status, body |-> body]

\* last.repeat: whether the request repeats the one before it, same handler
\* and same arguments; kept for create_week and toggle
Once == [repeat |-> FALSE]
Repeats(op, args) == [repeat |-> last.op = op /\ last.args = args]

----------------------------------------------------------------------------
(* init_db: create_all, and the default roster when the table is empty *)

init_db(rows) ==
    IF Cardinality(rows) = 0 /\ DEFAULT_PLAYERS # << >>
    THEN LET ids == InsertedIds(rows, players_seq, Len(DEFAULT_PLAYERS))
         IN  {[id |-> ids[idx], name |-> DEFAULT_PLAYERS[idx], sort_order |-> idx] :
                 idx \in 1..Len(DEFAULT_PLAYERS)}
    ELSE rows

init_db_seq(rows) ==
    IF Cardinality(rows) = 0 THEN players_seq + Len(DEFAULT_PLAYERS) ELSE players_seq

----------------------------------------------------------------------------
(* Session gate *)

\* a gate that lets every request in
LoggedIn_Always == TRUE

LoggedIn == "logged_in" \in session

\* login_required: the wrapper's answer when the session has no logged_in
Denied(op) ==
    /\ ~LoggedIn
    /\ last' = Redirect(op, << >>, <<"login">>) @@ Once
    /\ UNCHANGED <<db, config, session, reqs>>

\* a gate that forgets the password
CredentialsMatch_UsernameOnly(username, password) ==
    /\ username = ADMIN_USERNAME
    /\ ADMIN_PASSWORD # ""

CredentialsMatch(username, password) ==
    /\ username = ADMIN_USERNAME
    /\ ADMIN_PASSWORD # ""
    /\ password = ADMIN_PASSWORD

login(method, form_username, form_password) ==
    LET args == <<method, form_username, form_password>> IN
    /\ UNCHANGED <<db, config, reqs>>
    /\ IF ADMIN_PASSWORD = ""
       THEN /\ last' = Render("login", args, "login.html", [error |-> "not set"])
                         @@ Once
            /\ UNCHANGED session
       ELSE IF method = "POST"
       THEN LET username == strip(form_username)
                password == form_password
            IN  IF CredentialsMatch(username, password)
                THEN /\ session' = session \cup {"logged_in"}
                     /\ last' = Redirect("login", args, <<"index">>) @@ Once
                ELSE /\ last' = Render("login", args, "login.html", [error |-> "invalid"])
                                  @@ Once
                     /\ UNCHANGED session
       ELSE /\ last' = Render("login", args, "login.html", [error |-> "none"])
                         @@ Once
            /\ UNCHANGED session

\* a logout that leaves the session as it is
logout_KeepsSession ==
    \/ Denied("logout")
    \/ /\ LoggedIn
       /\ last' = Redirect("logout", << >>, <<"login">>) @@ Once
       /\ UNCHANGED <<db, config, session, reqs>>

logout ==
    \/ Denied("logout")
    \/ /\ LoggedIn
       /\ session' = {}
       /\ last' = Redirect("logout", << >>, <<"login">>) @@ Once
       /\ UNCHANGED <<db, config, reqs>>

----------------------------------------------------------------------------
(* Week manager *)

GameNos == 1..GAMES_PER_WEEK                      \* range(1, GAMES_PER_WEEK + 1)

\* range(1, GAMES_PER_WEEK): the last game left out
ensure_week_inserts_OffByOne(week_id, player_ids) ==
    {[week_id |-> week_id, player_id |-> player_ids[i], game_no |-> game_no, played |-> FALSE] :
        i \in 1..Len(player_ids), game_no \in 1..(GAMES_PER_WEEK - 1)}

\* ensure_week, lines 128-139: the rows of one new week
ensure_week_inserts(week_id, player_ids) ==
    {[week_id |-> week_id, player_id |-> player_ids[i], game_no |-> game_no, played |-> FALSE] :
        i \in 1..Len(player_ids), game_no \in GameNos}

\* an ensure_week that does not look the date up before it inserts
ensure_week_NoLookup(week_date, now, players_rows) ==
    LET week_id == InsertedIds(weeks_table, Cardinality(weeks_table), 1)[1]
        ordered == OrderBy(players_rows, [r \in players_rows |-> r.sort_order])
        player_ids == [i \in 1..Len(ordered) |-> ordered[i].id]
    IN  [id |-> week_id,
         weeks |-> weeks_table \cup
                     {[id |-> week_id, week_date |-> week_date, created_at |-> now]},
         games |-> week_player_games_table \cup ensure_week_inserts(week_id, player_ids)]

\* an ensure_week that stamps the week it finds with the time of the call
ensure_week_Restamps(week_date, now, players_rows) ==
    LET row == {w \in weeks_table : w.week_date = week_date}
        week_id == IF row # {} THEN (CHOOSE w \in row : TRUE).id
                   ELSE InsertedIds(weeks_table, Cardinality(weeks_table), 1)[1]
        ordered == OrderBy(players_rows, [r \in players_rows |-> r.sort_order])
        player_ids == [i \in 1..Len(ordered) |-> ordered[i].id]
    IN  [id |-> week_id,
         weeks |-> (weeks_table \ row) \cup
                     {[id |-> week_id, week_date |-> week_date, created_at |-> now]},
         games |-> IF row # {} THEN week_player_games_table
                   ELSE week_player_games_table \cup ensure_week_inserts(week_id, player_ids)]

\* an ensure_week that lays the cells of the week it finds out again
ensure_week_ResetsCells(week_date, now, players_rows) ==
    LET row == {w \in weeks_table : w.week_date = week_date}
        week_id == IF row # {} THEN (CHOOSE w \in row : TRUE).id
                   ELSE InsertedIds(weeks_table, Cardinality(weeks_table), 1)[1]
        ordered == OrderBy(players_rows, [r \in players_rows |-> r.sort_order])
        player_ids == [i \in 1..Len(ordered) |-> ordered[i].id]
    IN  [id |-> week_id,
         weeks |-> IF row # {} THEN weeks_table
                   ELSE weeks_table \cup
                          {[id |-> week_id, week_date |-> week_date, created_at |-> now]},
         games |-> {r \in week_player_games_table : r.week_id # week_id}
                     \cup ensure_week_inserts(week_id, player_ids)]

\* ensure_week(week_date) at time now: [id, weeks, games], the returned id
\* and the two tables it leaves
ensure_week(week_date, now, players_rows) ==
    LET row == {w \in weeks_table : w.week_date = week_date} IN
    IF row # {}
    THEN [id |-> (CHOOSE w \in row : TRUE).id,
          weeks |-> weeks_table,
          games |-> week_player_games_table]
    ELSE LET week_id == InsertedIds(weeks_table, Cardinality(weeks_table), 1)[1]
             ordered == OrderBy(players_rows, [r \in players_rows |-> r.sort_order])
             player_ids == [i \in 1..Len(ordered) |-> ordered[i].id]
             inserts == ensure_week_inserts(week_id, player_ids)
         IN  [id |-> week_id,
              weeks |-> weeks_table \cup
                          {[id |-> week_id, week_date |-> week_date, created_at |-> now]},
              games |-> week_player_games_table \cup inserts]

\* a listing by ascending date
get_weeks_Ascending == OrderBy(weeks_table, [w \in weeks_table |-> w.week_date])

\* get_weeks: the weeks, latest date first
get_weeks == Reverse(OrderBy(weeks_table, [w \in weeks_table |-> w.week_date]))

\* POST /create_week; form_date is the week_date field, << >> when absent
create_week(form_date, today, now) ==
    \/ Denied("create_week")
    \/ /\ LoggedIn
       /\ LET week_date == IF form_date = << >> THEN today ELSE form_date[1]
              done == ensure_week(week_date, now, init_db(players_table))
              args == <<week_date>>
          IN  /\ players_table' = init_db(players_table)
              /\ players_seq' = init_db_seq(players_table)
              /\ weeks_table' = done.weeks
              /\ week_player_games_table' = done.games
              /\ last' = Redirect("create_week", args, <<"week_view", done.id>>)
                           @@ Repeats("create_week", args)
       /\ UNCHANGED <<config, session, reqs>>

----------------------------------------------------------------------------
(* Navigation *)

index ==
    \/ Denied("index")
    \/ /\ LoggedIn
       /\ players_table' = init_db(players_table)
       /\ players_seq' = init_db_seq(players_table)
       /\ LET weeks == get_weeks
          IN  last' = (IF weeks = << >>
                       THEN Render("index", << >>, "empty.html", << >>)
                       ELSE Redirect("index", << >>, <<"week_view", weeks[1].id>>)) @@ Once
       /\ UNCHANGED <<weeks_table, week_player_games_table, config, session, reqs>>

\* lines 235-243: the played flag of every (player_id, game_no) of the week
played_map(week_id) ==
    LET rows == {r \in week_player_games_table : r.week_id = week_id}
        keys == {<<r.player_id, r.game_no>> : r \in rows}
    IN  [k \in keys |-> (CHOOSE r \in rows : <<r.player_id, r.game_no>> = k).played]

list_players(rows) == OrderBy(rows, [r \in rows |-> r.sort_order])

week_view(week_id) ==
    \/ Denied("week_view")
    \/ /\ LoggedIn
       /\ players_table' = init_db(players_table)
       /\ players_seq' = init_db_seq(players_table)
       /\ LET week == {w \in weeks_table : w.id = week_id}
          IN  last' = (IF week = {}
                       THEN Redirect("week_view", <<week_id>>, <<"index">>)
                       ELSE Render("week_view", <<week_id>>, "week.html",
                                   [week |-> CHOOSE w \in week : TRUE,
                                    weeks |-> get_weeks,
                                    players |-> list_players(init_db(players_table)),
                                    played_map |-> played_map(week_id)])) @@ Once
       /\ UNCHANGED <<weeks_table, week_player_games_table, config, session, reqs>>

----------------------------------------------------------------------------
(* Roster manager *)

\* a filter on the line as submitted, not on the stripped line
stripped_names_KeepsBlank(raw) ==
    LET lines == splitlines(raw)
        kept == SelectSeq(lines, LAMBDA line : line # << >>)
    IN  [i \in 1..Len(kept) |-> strip(kept[i])]

\* line 264: the stripped lines that are not empty
stripped_names(raw) ==
    LET lines == splitlines(raw)
        kept == SelectSeq(lines, LAMBDA line : strip(line) # << >>)
    IN  [i \in 1..Len(kept) |-> strip(kept[i])]

\* a deduplication that compares the names as written
RECURSIVE unique_from_CaseSensitive(_, _, _)
unique_from_CaseSensitive(names, seen, unique_names) ==
    IF names = << >> THEN unique_names
    ELSE LET name == Head(names) IN
         IF name \in seen
         THEN unique_from_CaseSensitive(Tail(names), seen, unique_names)
         ELSE unique_from_CaseSensitive(Tail(names), seen \cup {name},
                                        Append(unique_names, name))

\* lines 267-273: the first of the names that are equal in lower case
RECURSIVE unique_from(_, _, _)
unique_from(names, seen, unique_names) ==
    IF names = << >> THEN unique_names
    ELSE LET name == Head(names) IN
         IF lower(name) \in seen
         THEN unique_from(Tail(names), seen, unique_names)
         ELSE unique_from(Tail(names), seen \cup {lower(name)}, Append(unique_names, name))

\* no deduplication
unique_KeepsAll(names) == names

unique(names) == unique_from(names, {}, << >>)

\* lines 281-287: the rows of the new roster
players_rows(unique_names, ids) ==
    {[id |-> ids[idx], name |-> unique_names[idx], sort_order |-> idx] :
        idx \in 1..Len(unique_names)}

\* lines 289-304: the rows of every week for every player
players_inserts(week_ids, player_ids) ==
    {[week_id |-> week_id, player_id |-> player_id, game_no |-> game_no, played |-> FALSE] :
        week_id \in week_ids, player_id \in player_ids, game_no \in GameNos}

\* "\n".join of the names by sort_order
players_text(rows) ==
    LET players_list == list_players(rows)
    IN  join(<<"\n">>, [i \in 1..Len(players_list) |-> players_list[i].name])

\* the players field a browser posts for a textarea of these lines
CRLF == <<"\r", "\n">>
form_players(lines) == join(CRLF, lines)

\* a delete that removes nothing
delete_all_Nothing(rows) == rows

\* conn.execute(delete(table)), lines 278-279
delete_all(rows) == {}

\* GET and POST /players; lines are the lines of the textarea
players(method, lines) ==
    \/ Denied("players")
    \/ /\ LoggedIn
       /\ LET seeded == init_db(players_table)
              seq == init_db_seq(players_table)
              raw == form_players(lines)
              unique_names == IF method = "POST" THEN unique(stripped_names(raw)) ELSE << >>
              args == <<method, lines>>
          IN  IF unique_names # << >>
              THEN LET games_deleted == delete_all(week_player_games_table)
                       players_deleted == delete_all(seeded)
                       ids == InsertedIds(players_deleted, seq, Len(unique_names))
                       inserted == players_deleted \cup players_rows(unique_names, ids)
                       weeks == {w.id : w \in weeks_table}
                       rows == {r.id : r \in inserted}
                   IN  /\ backend = "postgresql" => seq + Len(unique_names) <= MaxPlayerSeq
                       /\ players_table' = inserted
                       /\ players_seq' = IF backend = "postgresql"
                                         THEN seq + Len(unique_names) ELSE seq
                       /\ week_player_games_table' =
                              games_deleted \cup players_inserts(weeks, rows)
                       /\ last' = Redirect("players", args, <<"players">>) @@ Once
              ELSE /\ players_table' = seeded
                   /\ players_seq' = seq
                   /\ UNCHANGED week_player_games_table
                   /\ last' = Render("players", args, "players.html",
                                     [players_text |-> players_text(seeded)]) @@ Once
       /\ UNCHANGED <<weeks_table, config, session, reqs>>

\* POST /players when a statement of the transaction of lines 276-307 raises.
\* failed_at tells how far the transaction came: 1 the cells deleted, 2 the
\* players deleted too, 3 the new players inserted, 4 the first rows of the
\* cells inserted.  working(..) is what the connection has written by then.
FailedAt == 1..4

players_working(unique_names, seeded, seq, failed_at) ==
    LET games_deleted == delete_all(week_player_games_table)
        players_deleted == IF failed_at >= 2 THEN delete_all(seeded) ELSE seeded
        ids == InsertedIds(players_deleted, seq, Len(unique_names))
        inserted == IF failed_at >= 3
                    THEN players_deleted \cup players_rows(unique_names, ids)
                    ELSE players_deleted
        weeks == {w.id : w \in weeks_table}
        rows == {r.id : r \in inserted}
        inserts == players_inserts(weeks, rows)
        some == {r \in inserts : /\ \A w \in weeks : r.week_id <= w
                                 /\ \A q \in rows : r.player_id <= q}
    IN  [players |-> inserted,
         games |-> IF failed_at >= 4 THEN games_deleted \cup some ELSE games_deleted,
         seq |-> IF backend = "postgresql" /\ failed_at >= 3
                 THEN seq + Len(unique_names) ELSE seq]

\* a connection that commits every statement as it is executed
rollback_Autocommit(before, working) == working

\* engine.begin() leaving the with block by an exception: the tables are
\* what they were when the transaction began
rollback(before, working) == before

\* the answer of Flask to an exception no handler catches
InternalServerError(op, args) == [op |-> op, args |-> args, status |-> 500, body |-> << >>]

players_fails(lines, failed_at) ==
    /\ LoggedIn
    /\ LET seeded == init_db(players_table)
           seq == init_db_seq(players_table)
           unique_names == unique(stripped_names(form_players(lines)))
           working == players_working(unique_names, seeded, seq, failed_at)
           args == <<"POST", lines, failed_at>>
       IN  /\ unique_names # << >>
           /\ backend = "postgresql" => seq + Len(unique_names) <= MaxPlayerSeq
           /\ players_table' = rollback(seeded, working.players)
           /\ week_player_games_table' = rollback(week_player_games_table, working.games)
           \* a sequence does not give back the values a transaction drew
           /\ players_seq' = working.seq
           /\ last' = InternalServerError("players", args) @@ Once
    /\ UNCHANGED <<weeks_table, config, session, reqs>>

----------------------------------------------------------------------------
(* Attendance grid *)

\* a select that leaves game_no out of its where clause
toggle_select_AnyGame(games, week_id, player_id, game_no) ==
    {r \in games : r.week_id = week_id /\ r.player_id = player_id}

\* lines 346-352: the rows the select returns
toggle_select(games, week_id, player_id, game_no) ==
    {r \in games : r.week_id = week_id /\ r.player_id = player_id /\ r.game_no = game_no}

\* an update that leaves player_id out of its where clause
toggle_update_AnyPlayer(games, week_id, player_id, game_no, new_value) ==
    {IF r.week_id = week_id /\ r.game_no = game_no
     THEN [r EXCEPT !.played = new_value] ELSE r : r \in games}

\* lines 358-366: the table after the update
toggle_update(games, week_id, player_id, game_no, new_value) ==
    {IF r.week_id = week_id /\ r.player_id = player_id /\ r.game_no = game_no
     THEN [r EXCEPT !.played = new_value] ELSE r : r \in games}

\* a toggle that only ever sets the flag
toggle_new_value_AlwaysSet(row) == TRUE

\* line 357
toggle_new_value(row) == ~row.played

\* an answer that reports the value the cell had
toggle_played_Inverted(new_value) == IF new_value THEN 0 ELSE 1

\* line 368: 1 if new_value else 0
toggle_played(new_value) == IF new_value THEN 1 ELSE 0

\* POST /toggle with the JSON body {week_id, player_id, game_no}
toggle(week_id, player_id, game_no) ==
    \/ Denied("toggle")
    \/ /\ LoggedIn
       /\ players_table' = init_db(players_table)
       /\ players_seq' = init_db_seq(players_table)
       /\ LET args == <<week_id, player_id, game_no>>
              row == toggle_select(week_player_games_table, week_id, player_id, game_no)
          IN  IF row = {}
              THEN /\ last' = Json("toggle", args, 404, [ok |-> FALSE])
                                @@ Repeats("toggle", args)
                   /\ UNCHANGED week_player_games_table
              ELSE LET new_value == toggle_new_value(CHOOSE r \in row : TRUE)
                   IN  /\ week_player_games_table' =
                              toggle_update(week_player_games_table,
                                            week_id, player_id, game_no, new_value)
                       /\ last' = Json("toggle", args, 200,
                                       [ok |-> TRUE, played |-> toggle_played(new_value)])
                                    @@ Repeats("toggle", args)
       /\ UNCHANGED <<weeks_table, config, session, reqs>>

----------------------------------------------------------------------------
(* POST /toggle, statement by statement, for requests served at the same   *)
(* time.  The select of line 346 reads the committed table: sqlite opens   *)
(* no transaction before the first write, postgresql reads committed.  The *)
(* update of line 358 waits for the lock (of the row in postgresql, of the *)
(* database in sqlite) a request that has updated and not yet committed    *)
(* holds; the commit at the end of the with block publishes the update.    *)

Clients == {1, 2}

Idle == [pc |-> "idle"]

InFlight(c) == reqs[c].pc \in {"select", "update", "commit"}
Quiet == \A c \in Clients : reqs[c].pc = "idle"

\* lines 336-345: the request is let in, init_db run, the JSON body read,
\* the connection opened.  seen is the table as the request found it; first
\* tells that no other request had come since the last were answered,
\* overlaps that another request was being served.
toggle_begin(c, week_id, player_id, game_no) ==
    /\ LoggedIn
    /\ reqs[c].pc = "idle"
    /\ reqs' = [reqs EXCEPT ![c] =
                   [pc |-> "select",
                    args |-> <<week_id, player_id, game_no>>,
                    seen |-> week_player_games_table,
                    first |-> \A d \in Clients \ {c} : reqs[d].pc = "idle",
                    overlaps |-> \E d \in Clients \ {c} : InFlight(d)]]
    /\ players_table' = init_db(players_table)
    /\ players_seq' = init_db_seq(players_table)
    /\ UNCHANGED <<weeks_table, week_player_games_table, config, session, last>>

\* lines 346-357
toggle_read(c) ==
    /\ reqs[c].pc = "select"
    /\ LET args == reqs[c].args
           row == toggle_select(week_player_games_table, args[1], args[2], args[3])
       IN  reqs' = [reqs EXCEPT ![c] =
                      IF row = {}
                      THEN [pc |-> "done", status |-> 404, body |-> [ok |-> FALSE]] @@ reqs[c]
                      ELSE [pc |-> "update",
                            new_value |-> toggle_new_value(CHOOSE r \in row : TRUE)]
                              @@ reqs[c]]
    /\ UNCHANGED <<db, config, session, last>>

\* whether the update of c has to wait for d's commit
Locked(c, d) ==
    /\ reqs[d].pc = "commit"
    /\ backend = "postgresql" => reqs[d].args = reqs[c].args

\* lines 358-366
toggle_write(c) ==
    /\ reqs[c].pc = "update"
    /\ \A d \in Clients \ {c} : ~Locked(c, d)
    /\ reqs' = [reqs EXCEPT ![c] = [pc |-> "commit"] @@ reqs[c]]
    /\ UNCHANGED <<db, config, session, last>>

\* the end of the with block, and line 368
toggle_commit(c) ==
    /\ reqs[c].pc = "commit"
    /\ LET args == reqs[c].args
       IN  week_player_games_table' =
              toggle_update(week_player_games_table, args[1], args[2], args[3],
                            reqs[c].new_value)
    /\ reqs' = [reqs EXCEPT ![c] =
                   [pc |-> "done", status |-> 200,
                    body |-> [ok |-> TRUE, played |-> toggle_played(reqs[c].new_value)]]
                     @@ reqs[c]]
    /\ UNCHANGED <<players_table, players_seq, weeks_table, config, session, last>>

\* the responses are with their clients
toggle_end ==
    /\ \E c \in Clients : reqs[c].pc = "done"
    /\ \A c \in Clients : ~InFlight(c)
    /\ reqs' = [c \in Clients |-> Idle]
    /\ UNCHANGED <<db, config, session, last>>

----------------------------------------------------------------------------
(* POST /create_week, statement by statement, for requests served at the   *)
(* same time.  The select of line 113 reads the committed table.  The      *)
(* insert of line 119 waits while another request holds an insert it has   *)
(* not committed (of the same week_date in postgresql, of any in sqlite);  *)
(* it raises IntegrityError when the date is in the table, week_date being *)
(* unique (line 61), and the with block then rolls back.                   *)

\* a weeks table without the unique constraint
weeks_unique_violation_None(rows, week_date) == FALSE

\* Column("week_date", ..., unique=True)
weeks_unique_violation(rows, week_date) == \E w \in rows : w.week_date = week_date

EnsureInFlight(c) == reqs[c].pc \in {"lookup", "insert", "commit_week"}

\* lines 326-332 and 112
ensure_week_begin(c, week_date, now) ==
    /\ LoggedIn
    /\ reqs[c].pc = "idle"
    /\ reqs' = [reqs EXCEPT ![c] =
                   [pc |-> "lookup", week_date |-> week_date, now |-> now,
                    overlaps |-> \E d \in Clients \ {c} : EnsureInFlight(d)]]
    /\ players_table' = init_db(players_table)
    /\ players_seq' = init_db_seq(players_table)
    /\ UNCHANGED <<weeks_table, week_player_games_table, config, session, last>>

\* lines 113-117
ensure_week_lookup(c) ==
    /\ reqs[c].pc = "lookup"
    /\ LET row == {w \in weeks_table : w.week_date = reqs[c].week_date}
       IN  reqs' = [reqs EXCEPT ![c] =
                      IF row # {}
                      THEN [pc |-> "done", status |-> 302,
                            body |-> <<"week_view", (CHOOSE w \in row : TRUE).id>>]
                             @@ reqs[c]
                      ELSE [pc |-> "insert"] @@ reqs[c]]
    /\ UNCHANGED <<db, config, session, last>>

\* whether the insert of c has to wait for d's commit
WeekLocked(c, d) ==
    /\ reqs[d].pc = "commit_week"
    /\ backend = "postgresql" => reqs[d].week_date = reqs[c].week_date

\* the ids a request has drawn and not yet committed
DrawnIds == {reqs[d].week.id : d \in {e \in Clients : reqs[e].pc = "commit_week"}}

\* lines 119-142: the insert of the week, the select of the players and the
\* rows of the cells; the id follows the ids of the table and the ids drawn
ensure_week_insert(c) ==
    /\ reqs[c].pc = "insert"
    /\ \A d \in Clients \ {c} : ~WeekLocked(c, d)
    /\ LET taken == {w.id : w \in weeks_table} \cup DrawnIds
           week_id == IF taken = {} THEN 1 ELSE Max(taken) + 1
           ordered == OrderBy(players_table, [r \in players_table |-> r.sort_order])
           player_ids == [i \in 1..Len(ordered) |-> ordered[i].id]
       IN  reqs' = [reqs EXCEPT ![c] =
                      IF weeks_unique_violation(weeks_table, reqs[c].week_date)
                      THEN [pc |-> "done", status |-> 500, body |-> << >>] @@ reqs[c]
                      ELSE [pc |-> "commit_week",
                            week |-> [id |-> week_id, week_date |-> reqs[c].week_date,
                                      created_at |-> reqs[c].now],
                            inserts |-> ensure_week_inserts(week_id, player_ids)]
                             @@ reqs[c]]
    /\ UNCHANGED <<db, config, session, last>>

\* the end of the with block, line 144 and line 333
ensure_week_commit(c) ==
    /\ reqs[c].pc = "commit_week"
    /\ weeks_table' = weeks_table \cup {reqs[c].week}
    /\ week_player_games_table' = week_player_games_table \cup reqs[c].inserts
    /\ reqs' = [reqs EXCEPT ![c] =
                   [pc |-> "done", status |-> 302,
                    body |-> <<"week_view", reqs[c].week.id>>] @@ reqs[c]]
    /\ UNCHANGED <<players_table, players_seq, config, session, last>>

\* the responses are with their clients
ensure_week_end ==
    /\ \E c \in Clients : reqs[c].pc = "done"
    /\ \A c \in Clients : ~EnsureInFlight(c)
    /\ reqs' = [c \in Clients |-> Idle]
    /\ UNCHANGED <<db, config, session, last>>

----------------------------------------------------------------------------
(* The program, one request at a time *)

Init ==
    /\ backend \in {"sqlite", "postgresql"}
    /\ ADMIN_PASSWORD \in {"", "secret"}
    /\ players_table = {}
    /\ players_seq = 0
    /\ weeks_table = {}
    /\ week_player_games_table = {}
    /\ session = {}
    /\ last = [op |-> "none", args |-> << >>, status |-> 0, body |-> << >>, repeat |-> FALSE]
    /\ reqs = [c \in Clients |-> Idle]

Next ==
    \/ login("GET", << >>, "")
    \/ \E password \in {"secret", "Secret"} : login("POST", ADMIN_USERNAME, password)
    \/ logout
    \/ index
    \/ \E week_id \in WeekIds : week_view(week_id)
    \/ players("GET", << >>)
    \/ \E lines \in LineSamples : players("POST", lines)
    \/ \E form_date \in {<< >>} \cup {<<d>> : d \in Dates}, today \in Dates, now \in Times :
          create_week(form_date, today, now)
    \/ \E week_id \in WeekIds, player_id \in PlayerIds, game_no \in GameInputs :
          toggle(week_id, player_id, game_no)

Spec == Init /\ [][Next]_vars

----------------------------------------------------------------------------
(* The roster manager under every submission of at most MaxLines lines, and *)
(* the sample submissions                                                  *)

RosterNext ==
    \/ login("POST", ADMIN_USERNAME, "secret")
    \/ logout
    \/ players("GET", << >>)
    \/ \E lines \in LineSeqs \cup LineSamples : players("POST", lines)

RosterSpec == Init /\ [][RosterNext]_vars

----------------------------------------------------------------------------
(* The session gate under every submitted pair of credentials *)

LoginNext ==
    \/ \E method \in {"GET", "POST"}, username \in Usernames, password \in Passwords :
          login(method, username, password)
    \/ logout
    \/ index
    \/ players("POST", <<Bob>>)

LoginSpec == Init /\ [][LoginNext]_vars

----------------------------------------------------------------------------
(* Two clients toggling cells of the first week at the same time; the      *)
(* roster and the weeks are set up while no toggle is being served         *)

ToggleNext ==
    \/ login("POST", ADMIN_USERNAME, "secret")
    \/ Quiet /\ \E lines \in {<<Bob>>, <<Alice, bob_>>} : players("POST", lines)
    \/ Quiet /\ create_week(<<1>>, 1, 0)
    \/ \E c \in Clients, player_id \in PlayerIds :
          toggle_begin(c, 1, player_id, GAMES_PER_WEEK)
    \/ \E c \in Clients : toggle_read(c)
    \/ \E c \in Clients : toggle_write(c)
    \/ \E c \in Clients : toggle_commit(c)
    \/ toggle_end

ToggleSpec == Init /\ [][ToggleNext]_vars

----------------------------------------------------------------------------
(* The roster manager with statements of its transaction failing *)

StorageNext ==
    \/ login("POST", ADMIN_USERNAME, "secret")
    \/ \E lines \in {<<Bob>>, <<Alice, bob_>>} : players("POST", lines)
    \/ \E lines \in {<<Bob>>, <<Alice, bob_>>}, failed_at \in FailedAt :
          players_fails(lines, failed_at)
    \/ \E d \in Dates : create_week(<<d>>, 1, 0)
    \/ \E week_id \in WeekIds, player_id \in PlayerIds :
          toggle(week_id, player_id, GAMES_PER_WEEK)

StorageSpec == Init /\ [][StorageNext]_vars

----------------------------------------------------------------------------
(* Two clients creating weeks at the same time; the roster is set while no *)
(* request is being served                                                 *)

WeekNext ==
    \/ login("POST", ADMIN_USERNAME, "secret")
    \/ Quiet /\ \E lines \in {<<Bob>>, <<Alice, bob_>>} : players("POST", lines)
    \/ \E c \in Clients, week_date \in Dates, now \in Times :
          ensure_week_begin(c, week_date, now)
    \/ \E c \in Clients : ensure_week_lookup(c)
    \/ \E c \in Clients : ensure_week_insert(c)
    \/ \E c \in Clients : ensure_week_commit(c)
    \/ ensure_week_end

WeekSpec == Init /\ [][WeekNext]_vars

----------------------------------------------------------------------------
(* Navigation over weeks of MaxDate + 1 dates, created in every order *)

NavDates == 1..(MaxDate + 1)

NavNext ==
    \/ login("POST", ADMIN_USERNAME, "secret")
    \/ logout
    \/ index
    \/ \E d \in NavDates, now \in Times : create_week(<<d>>, 1, now)

NavSpec == Init /\ [][NavNext]_vars

----------------------------------------------------------------------------
(* Properties *)

Handled(op) == last.op = op /\ last.args # << >>
HandledNext(op) == last'.op = op /\ last'.args # << >>

GamesOf(games, week_id, player_id) ==
    {r \in games : r.week_id = week_id /\ r.player_id = player_id}
GamesOfWeek(games, week_id) == {r \in games : r.week_id = week_id}

\* C1: every week and every player that exist have exactly 16 cells between
\* them, one for each game number 1..16.
C1_SixteenCellsPerWeekAndPlayer ==
    \A w \in weeks_table, p \in players_table :
        LET cells == GamesOf(week_player_games_table, w.id, p.id)
        IN  /\ Cardinality(cells) = 16
            /\ {r.game_no : r \in cells} = 1..16

C1_Witness ==
    /\ Cardinality(weeks_table) = 2
    /\ Cardinality(players_table) = 2
    /\ \E r \in week_player_games_table : r.played
    /\ Handled("toggle")

\* C2: ensure_week called again with the date of the call before it returns
\* the same week id, adds no week and no cell, and leaves one week of that
\* date with (number of players) x 16 cells.
C2_EnsureWeekTwice ==
    [][(HandledNext("create_week") /\ last'.repeat) =>
          LET week_date == last'.args[1]
              found == {w \in weeks_table' : w.week_date = week_date}
          IN  /\ last'.body = last.body
              /\ weeks_table' = weeks_table
              /\ week_player_games_table' = week_player_games_table
              /\ Cardinality(found) = 1
              /\ \A w \in found :
                    /\ last'.body = <<"week_view", w.id>>
                    /\ Cardinality(GamesOfWeek(week_player_games_table', w.id))
                          = Cardinality(players_table') * 16]_vars

C2_Witness ==
    /\ Handled("create_week")
    /\ last.repeat
    /\ Cardinality(players_table) = 2
    /\ Cardinality(weeks_table) = 2

\* the lines of a submission, trimmed, the blank ones left out
Trimmed(line) ==
    LET at == {i \in 1..Len(line) : line[i] \notin {" ", "\t", "\n", "\r"}}
    IN  IF at = {} THEN << >>
        ELSE SubSeq(line, CHOOSE i \in at : \A j \in at : i <= j,
                          CHOOSE i \in at : \A j \in at : j <= i)

Lowered(name) ==
    [i \in 1..Len(name) |->
        LET at == {k \in 1..26 : name[i] = <<"A", "B", "C", "D", "E", "F", "G", "H", "I", "J",
                                              "K", "L", "M", "N", "O", "P", "Q", "R", "S", "T",
                                              "U", "V", "W", "X", "Y", "Z">>[k]}
        IN  IF at = {} THEN name[i]
            ELSE <<"a", "b", "c", "d", "e", "f", "g", "h", "i", "j", "k", "l", "m", "n", "o",
                   "p", "q", "r", "s", "t", "u", "v", "w", "x", "y", "z">>[CHOOSE k \in at : TRUE]]

\* the reference normalization: position i of the lines is kept when its
\* trimmed line is not empty and differs, lower-cased, from every trimmed
\* line before it
Normalized(lines) ==
    LET kept == {i \in 1..Len(lines) :
                    /\ Trimmed(lines[i]) # << >>
                    /\ \A j \in 1..(i - 1) :
                          Lowered(Trimmed(lines[j])) # Lowered(Trimmed(lines[i]))}
        nth(k) == CHOOSE i \in kept : Cardinality({j \in kept : j < i}) = k - 1
    IN  [k \in 1..Cardinality(kept) |-> Trimmed(lines[nth(k)])]

Replaced == Handled("players") /\ last.args[1] = "POST" /\ last.status = 302
ReplacedNext == HandledNext("players") /\ last'.args[1] = "POST" /\ last'.status = 302

\* C3: after a replacement by M names every week has M x 16 cells, none of
\* them played, and no cell is of a player of the roster before that is not
\* in the roster after.
C3_ReplacementRebuildsCells ==
    [][ReplacedNext =>
          LET M == Len(Normalized(last'.args[2]))
              removed == {p.id : p \in players_table} \ {p.id : p \in players_table'}
          IN  /\ M > 0
              /\ \A w \in weeks_table' :
                    Cardinality(GamesOfWeek(week_player_games_table', w.id)) = M * 16
              /\ \A r \in week_player_games_table' :
                    ~r.played /\ r.player_id \notin removed]_vars

C3_Witness ==
    /\ Replaced
    /\ Cardinality(weeks_table) = 2
    /\ Cardinality(players_table) = 1
    /\ \E p \in players_table : p.id = 3

\* C4: the roster a POST /players leaves, by sort_order, is the reference
\* normalization of the submitted lines, the player at position i having
\* sort_order i; the roster is replaced exactly when that list is not empty;
\* ["Bob", "bob ", "Alice"] gives ["Bob", "Alice"].
C4_RosterIsNormalizedInput ==
    (Handled("players") /\ last.args[1] = "POST") =>
        LET lines == last.args[2]
            roster == list_players(players_table)
        IN  /\ last.status = 302 <=> Normalized(lines) # << >>
            /\ last.status = 302 =>
                  /\ [i \in 1..Len(roster) |-> roster[i].name] = Normalized(lines)
                  /\ \A i \in 1..Len(roster) : roster[i].sort_order = i
                  /\ Cardinality(players_table) = Len(roster)
            /\ lines = <<Bob, bob_, Alice>> =>
                  [i \in 1..Len(roster) |-> roster[i].name] = <<Bob, Alice>>

C4_Witness ==
    /\ Replaced
    /\ last.args[2] = <<Bob, bob_, Alice>>
    /\ {p.name : p \in players_table} = {Bob, Alice}

\* C5: a POST /players whose lines normalize to the empty list leaves the
\* players, the weeks and the cells as they were.
C5_BlankSubmissionChangesNothing ==
    [][(HandledNext("players") /\ last'.args[1] = "POST"
            /\ Normalized(last'.args[2]) = << >>) =>
          /\ players_table' = players_table
          /\ weeks_table' = weeks_table
          /\ week_player_games_table' = week_player_games_table]_vars

C5_Witness ==
    /\ Handled("players")
    /\ last.args = <<"POST", <<<<" ">>, << >>>>>>
    /\ last.status = 200
    /\ Cardinality(players_table) = 2
    /\ \E r \in week_player_games_table : r.played

\* the played flag of the cell of these arguments
PlayedOf(games, args) ==
    (CHOOSE r \in games :
        r.week_id = args[1] /\ r.player_id = args[2] /\ r.game_no = args[3]).played

HasCell(games, args) ==
    \E r \in games : r.week_id = args[1] /\ r.player_id = args[2] /\ r.game_no = args[3]

Flag(played) == IF played = 1 THEN TRUE ELSE FALSE

\* C6: a toggle of an existing cell returns and stores the negation of the
\* value the cell had, so a second toggle of that cell right after the first
\* returns the value the cell had before the first and leaves the cell at it.
C6_ToggleTwiceRestores ==
    [][(HandledNext("toggle") /\ HasCell(week_player_games_table, last'.args)) =>
          LET args == last'.args
              before == PlayedOf(week_player_games_table, args)
          IN  /\ last'.status = 200
              /\ last'.body.played \in {0, 1}
              /\ Flag(last'.body.played) = ~before
              /\ PlayedOf(week_player_games_table', args) = ~before
              /\ last'.repeat =>
                    \* last is the first call: it returned ~original = before
                    /\ last.status = 200
                    /\ Flag(last.body.played) = before
                    /\ Flag(last'.body.played) = ~Flag(last.body.played)
                    /\ PlayedOf(week_player_games_table', args) = ~Flag(last.body.played)]_vars

C6_Witness ==
    /\ Handled("toggle")
    /\ last.repeat
    /\ last.status = 200
    /\ last.body.played = 1
    /\ PlayedOf(week_player_games_table, last.args)

\* C7: a toggle whose week_id, player_id and game_no are of no cell answers
\* 404 with {ok: false} and leaves the three tables as they were.
C7_ToggleOfNoCellIsNotFound ==
    [][(HandledNext("toggle") /\ ~HasCell(week_player_games_table, last'.args)) =>
          /\ last'.status = 404
          /\ last'.body = [ok |-> FALSE]
          /\ players_table' = players_table
          /\ weeks_table' = weeks_table
          /\ week_player_games_table' = week_player_games_table]_vars

C7_Witness ==
    /\ Handled("toggle")
    /\ last.status = 404
    /\ last.args[3] = 17
    /\ \E w \in weeks_table : w.id = last.args[1]
    /\ \E p \in players_table : p.id = last.args[2]
    /\ \E r \in week_player_games_table : r.played

\* a login that succeeded: the redirect to index
LoggedInNext == last'.op = "login" /\ last'.status = 302

\* C10, as claimed: a login sets logged_in only when the password configured
\* is not empty and the submitted username and password are the configured
\* ones; with no password configured every login shows the configuration
\* error and sets no session.
C10_LoginNeedsExactCredentials ==
    [][/\ (LoggedInNext \/ (~LoggedIn /\ LoggedIn')) =>
             /\ ADMIN_PASSWORD # ""
             /\ last'.op = "login"
             /\ last'.args[2] = ADMIN_USERNAME
             /\ last'.args[3] = ADMIN_PASSWORD
       /\ (last'.op = "login" /\ ADMIN_PASSWORD = "") =>
             /\ last'.status = 200
             /\ last'.body = [template |-> "login.html", error |-> "not set"]
             /\ session' = session /\ ~LoggedIn']_vars

\* C10, amended: the username is compared after its surrounding whitespace
\* is trimmed; the password is compared as submitted.
C10_LoginNeedsTrimmedUsername ==
    [][/\ (LoggedInNext \/ (~LoggedIn /\ LoggedIn')) =>
             /\ ADMIN_PASSWORD # ""
             /\ last'.op = "login"
             /\ last'.args[1] = "POST"
             /\ Trimmed(last'.args[2]) = ADMIN_USERNAME
             /\ last'.args[3] = ADMIN_PASSWORD
       /\ (last'.op = "login" /\ ADMIN_PASSWORD = "") =>
             /\ last'.status = 200
             /\ last'.body = [template |-> "login.html", error |-> "not set"]
             /\ session' = session /\ ~LoggedIn']_vars

C10_Witness ==
    /\ last.op = "login"
    /\ last.status = 302
    /\ last.args[2] = Padded
    /\ LoggedIn

\* two requests answered 200, c the one received first
BothDone(c, d) ==
    /\ c # d
    /\ reqs[c].pc = "done" /\ reqs[c].status = 200
    /\ reqs[d].pc = "done" /\ reqs[d].status = 200
    /\ reqs[c].first

\* C8: two toggles of one cell served at the same time are applied one
\* after the other: they return opposite values and the cell ends at the
\* value it had.
C8_ConcurrentTogglesOfOneCell ==
    \A c, d \in Clients :
        (BothDone(c, d) /\ reqs[d].overlaps /\ reqs[c].args = reqs[d].args) =>
            /\ reqs[c].body.played # reqs[d].body.played
            /\ PlayedOf(week_player_games_table, reqs[c].args)
                  = PlayedOf(reqs[c].seen, reqs[c].args)

\* C9: two toggles of two cells of one week, however their statements
\* interleave, are both answered 200 with the negation of the value their
\* cell had, and the grid then shows the two cells negated and every other
\* cell of the week as it was.
C9_ConcurrentTogglesOfTwoCells ==
    \A c, d \in Clients :
        (/\ c # d
         /\ reqs[c].pc = "done" /\ reqs[d].pc = "done"
         /\ reqs[c].first
         /\ reqs[c].args # reqs[d].args
         /\ reqs[c].args[1] = reqs[d].args[1]
         /\ HasCell(reqs[c].seen, reqs[c].args)
         /\ HasCell(reqs[c].seen, reqs[d].args)) =>
            LET week_id == reqs[c].args[1]
                grid == played_map(week_id)
                was == [k \in {<<r.player_id, r.game_no>> :
                                  r \in GamesOfWeek(reqs[c].seen, week_id)} |->
                          PlayedOf(reqs[c].seen, <<week_id, k[1], k[2]>>)]
                kc == <<reqs[c].args[2], reqs[c].args[3]>>
                kd == <<reqs[d].args[2], reqs[d].args[3]>>
            IN  /\ reqs[c].status = 200 /\ reqs[d].status = 200
                /\ DOMAIN grid = DOMAIN was
                /\ grid[kc] = ~was[kc] /\ Flag(reqs[c].body.played) = grid[kc]
                /\ grid[kd] = ~was[kd] /\ Flag(reqs[d].body.played) = grid[kd]
                /\ \A k \in DOMAIN grid \ {kc, kd} : grid[k] = was[k]

C9_Witness ==
    \E c, d \in Clients :
        /\ BothDone(c, d)
        /\ reqs[d].overlaps
        /\ reqs[c].args # reqs[d].args
        /\ PlayedOf(reqs[c].seen, reqs[c].args)
        /\ ~PlayedOf(week_player_games_table, reqs[c].args)
        /\ PlayedOf(week_player_games_table, reqs[d].args)

\* the operations behind login_required
Protected == {"index", "week_view", "players", "create_week", "toggle", "logout"}

\* C11: a request for a protected operation that arrives while the session
\* has no logged_in is answered by the redirect to the login page, and the
\* players, the weeks and the cells are what they were; the session stays
\* without logged_in.
C11_DeniedRequestTouchesNothing ==
    [][("logged_in" \notin session /\ last'.op \in Protected) =>
          /\ last'.status = 302
          /\ last'.body = <<"login">>
          /\ players_table' = players_table
          /\ players_seq' = players_seq
          /\ weeks_table' = weeks_table
          /\ week_player_games_table' = week_player_games_table
          /\ "logged_in" \notin session']_vars

C11_Witness ==
    /\ "logged_in" \notin session
    /\ last.op = "toggle"
    /\ last.status = 302
    /\ last.body = <<"login">>
    /\ Cardinality(weeks_table) = 1
    /\ Cardinality(players_table) = 2
    /\ \E r \in week_player_games_table : r.played

\* a protected handler other than logout ran: its answer is not the
\* wrapper's redirect to the login page
HandlerRanNext ==
    /\ last'.op \in Protected \ {"logout"}
    /\ ~(last'.status = 302 /\ last'.body = <<"login">>)

\* C12: the session starts without logged_in; it gains logged_in only by a
\* login that succeeded; after every logout it is without logged_in; and a
\* protected handler runs only while it has logged_in.  Hence a handler runs
\* only after a login that succeeded and that no logout has followed.
C12_HandlerRunsOnlyBetweenLoginAndLogout ==
    /\ "logged_in" \notin session
    /\ [][/\ ("logged_in" \notin session /\ "logged_in" \in session') =>
                (last'.op = "login" /\ last'.status = 302)
          /\ last'.op = "logout" => session' = {}
          /\ HandlerRanNext => "logged_in" \in session]_vars

C12_Witness ==
    /\ last.op = "week_view"
    /\ last.body = <<"login">>
    /\ session = {}
    /\ Cardinality(weeks_table) = 2
    /\ \E r \in week_player_games_table : r.played

\* C13: a POST /players that fails after its cells were deleted, after its
\* players were deleted, after the new players were inserted or while the
\* new cells are inserted leaves the players and the cells, played values
\* included, as they were before the request; so do the weeks.
C13_FailedReplacementChangesNothing ==
    [][(last'.op = "players" /\ last'.status = 500) =>
          /\ players_table' = players_table
          /\ week_player_games_table' = week_player_games_table
          /\ weeks_table' = weeks_table]_vars

C13_Witness ==
    /\ last.op = "players"
    /\ last.status = 500
    /\ last.args = <<"POST", <<Bob>>, 4>>
    /\ {p.name : p \in players_table} = {Alice, <<"b", "o", "b">>}
    /\ Cardinality(weeks_table) = 2
    /\ \E r \in week_player_games_table : r.played

\* C14: whatever the interleaving of the create_week requests, the weeks
\* table has at most one week of each date, and the cells of the weeks of a
\* date are at most one set: 16 for each player, all of them of a week of
\* the table.
C14_OneWeekPerDate ==
    /\ \A w1, w2 \in weeks_table : w1.week_date = w2.week_date => w1 = w2
    /\ \A r \in week_player_games_table : \E w \in weeks_table : w.id = r.week_id
    /\ \A week_date \in Dates :
          LET ids == {w.id : w \in {x \in weeks_table : x.week_date = week_date}}
              cells == {r \in week_player_games_table : r.week_id \in ids}
          IN  Cardinality(cells) <= Cardinality(players_table) * 16

\* two requests for one date both passed the lookup; one was answered by the
\* redirect to the new week, the other failed on the unique constraint
C14_Witness ==
    \E c, d \in Clients :
        /\ c # d
        /\ reqs[c].pc = "done" /\ reqs[c].status = 302
        /\ reqs[d].pc = "done" /\ reqs[d].status = 500
        /\ reqs[c].week_date = reqs[d].week_date
        /\ Cardinality(weeks_table) = 2
        /\ Cardinality(players_table) = 2

\* C15: a week of the table, with its id, week_date and created_at, is in
\* the table after every request: no request deletes or rewrites a week.
C15_WeeksAreKept ==
    [][\A w \in weeks_table : w \in weeks_table']_vars

\* two weeks created at different times, the later date first, after a
\* replacement of the roster
C15_Witness ==
    /\ Replaced
    /\ [id |-> 1, week_date |-> 2, created_at |-> 0] \in weeks_table
    /\ [id |-> 2, week_date |-> 1, created_at |-> 1] \in weeks_table

\* C16: a create_week for a date that is in the weeks table redirects to the
\* week of that date and leaves the weeks, the players and the cells, the
\* played ones included, as they were.
C16_EnsureExistingWeekChangesNothing ==
    [][\A w \in weeks_table :
          (HandledNext("create_week") /\ w.week_date = last'.args[1]) =>
              /\ last'.status = 302
              /\ last'.body = <<"week_view", w.id>>
              /\ weeks_table' = weeks_table
              /\ players_table' = players_table
              /\ week_player_games_table' = week_player_games_table
              /\ \A r \in week_player_games_table :
                    (r.week_id = w.id /\ r.played) => r \in week_player_games_table']_vars

\* a create_week, not a repeat of the request before it, for a week that has
\* a played cell: the week was there before the request
C16_Witness ==
    /\ Handled("create_week")
    /\ ~last.repeat
    /\ last.body = <<"week_view", 2>>
    /\ \E r \in week_player_games_table : r.week_id = 2 /\ r.played
    /\ \E r \in week_player_games_table : r.week_id = 1 /\ r.played

\* the cells of the table before the step whose key is in the table after
\* it with another played value
ChangedNext ==
    {r \in week_player_games_table :
        [r EXCEPT !.played = ~r.played] \in week_player_games_table'}

\* a toggle answered 200 negates its cell, answers with the value now
\* stored, and leaves every other cell, the players and the weeks alone
ToggleFlipsOneCellNext ==
    (HandledNext("toggle") /\ last'.status = 200) =>
        LET args == last'.args
            rest == {r \in week_player_games_table :
                        <<r.week_id, r.player_id, r.game_no>> # args}
        IN  /\ HasCell(week_player_games_table, args)
            /\ PlayedOf(week_player_games_table', args)
                  = ~PlayedOf(week_player_games_table, args)
            /\ last'.body.played = (IF PlayedOf(week_player_games_table', args) THEN 1 ELSE 0)
            /\ {r \in week_player_games_table' :
                   <<r.week_id, r.player_id, r.game_no>> # args} = rest
            /\ Cardinality(week_player_games_table') = Cardinality(week_player_games_table)
            /\ players_table' = players_table
            /\ weeks_table' = weeks_table

\* C17, as claimed: whenever the played value under a cell's key differs
\* before and after a request, the request is a toggle of that key answered
\* 200; and a toggle answered 200 flips its cell alone.
C17_OnlyToggleChangesPlayed ==
    [][/\ \A r \in ChangedNext :
             /\ HandledNext("toggle")
             /\ last'.status = 200
             /\ last'.args = <<r.week_id, r.player_id, r.game_no>>
       /\ ToggleFlipsOneCellNext]_vars

\* C17, amended: a replacement of the roster deletes every cell and inserts
\* cells with played = false, under keys that may be keys of deleted cells;
\* every other request changes the played value under a key only as the
\* toggle of that key answered 200; and a toggle answered 200 flips its cell
\* alone.
C17_OnlyToggleOrReplacementChangesPlayed ==
    [][/\ ~ReplacedNext =>
             \A r \in ChangedNext :
                 /\ HandledNext("toggle")
                 /\ last'.status = 200
                 /\ last'.args = <<r.week_id, r.player_id, r.game_no>>
       /\ ReplacedNext => \A r \in ChangedNext : r.played
       /\ ToggleFlipsOneCellNext]_vars

C17_Witness ==
    /\ Handled("toggle")
    /\ last.status = 200
    /\ last.body.played = 0
    /\ ~PlayedOf(week_player_games_table, last.args)
    /\ Cardinality({r \in week_player_games_table : r.played}) = 2
    /\ Cardinality(weeks_table) = 2
    /\ Cardinality(players_table) = 2

\* C18: get_weeks lists every week of the table once, each date greater than
\* the date after it; an index request let in answers with the empty page
\* when there is no week and otherwise redirects to the week whose date no
\* other week's date exceeds.  (index changes neither the weeks nor the
\* session, so the state after the request shows what it was answered from.)
C18_WeeksListedLatestFirst ==
    /\ Len(get_weeks) = Cardinality(weeks_table)
    /\ {get_weeks[i] : i \in 1..Len(get_weeks)} = weeks_table
    /\ \A i, j \in 1..Len(get_weeks) :
          i < j => get_weeks[i].week_date > get_weeks[j].week_date
    /\ (last.op = "index" /\ "logged_in" \in session) =>
          IF weeks_table = {}
          THEN last.status = 200 /\ last.body = [template |-> "empty.html"]
          ELSE /\ last.status = 302
               /\ \E w \in weeks_table :
                     /\ \A x \in weeks_table : x.week_date <= w.week_date
                     /\ last.body = <<"week_view", w.id>>

\* three weeks created latest date last but one: the redirect goes to the
\* second week created
C18_Witness ==
    /\ last.op = "index"
    /\ last.body = <<"week_view", 2>>
    /\ "logged_in" \in session
    /\ {<<w.id, w.week_date>> : w \in weeks_table} = {<<1, 2>>, <<2, 3>>, <<3, 1>>}

\* C19: every cell is of a week of the weeks table and of a player of the
\* players table, and no two players have names that are equal once both
\* are lower-cased.
C19_NoOrphanCellAndDistinctNames ==
    /\ \A r \in week_player_games_table :
          /\ \E w \in weeks_table : w.id = r.week_id
          /\ \E q \in players_table : q.id = r.player_id
    /\ \A p1, p2 \in players_table :
          Lowered(p1.name) = Lowered(p2.name) => p1 = p2

\* the roster left by the lines Bob, "bob " and Alice, after an earlier
\* roster was replaced, with two weeks and a played cell
C19_Witness ==
    /\ Handled("toggle")
    /\ {p.name : p \in players_table} = {Bob, Alice}
    /\ backend = "postgresql"
    /\ \E p \in players_table : p.id = 3
    /\ Cardinality(weeks_table) = 2
    /\ \E r \in week_player_games_table : r.played

====
